---- MODULE Spec2Model ----
(***************************************************************************)
(* web_audit_rust (src/main.rs): a one-shot command-line analyser.  main   *)
(* takes a URL, get_website_details fetches the page and runs a fixed      *)
(* sequence of inspections, each of which may issue one blocking request,  *)
(* and the resulting key -> list-of-strings report is printed.             *)
(*                                                                         *)
(* Text is modelled by TLA+ strings, one-character strings being the       *)
(* characters.  The HTML parser, the HTTP client and the clock are the     *)
(* environment: a parsed page is a sequence of element nodes in document   *)
(* order, a request ends in a transport error or in a reply with a status  *)
(* and a body, and the clock yields two wall-clock readings.               *)
(***************************************************************************)
EXTENDS Integers, Sequences, FiniteSets, TLC

VARIABLES args, world, pc, details, html, links, idx,
          broken_links, broken_link_pages, requests, time, stdout, stderr

vars == <<args, world, pc, details, html, links, idx,
          broken_links, broken_link_pages, requests, time, stdout, stderr>>

(***************************************************************************)
(* str primitives                                                          *)
(***************************************************************************)
Char(s, i) == SubSeq(s, i, i)

starts_with(s, p) == Len(s) >= Len(p) /\ SubSeq(s, 1, Len(p)) = p

contains(s, p) ==
    \E i \in 1..(Len(s) - Len(p) + 1) : SubSeq(s, i, i + Len(p) - 1) = p

White_Space == {" ", "\t", "\n", "\r", "\f"}

RECURSIVE trim_start(_)
trim_start(s) ==
    IF s # "" /\ Char(s, 1) \in White_Space
    THEN trim_start(SubSeq(s, 2, Len(s)))
    ELSE s

RECURSIVE trim_end(_)
trim_end(s) ==
    IF s # "" /\ Char(s, Len(s)) \in White_Space
    THEN trim_end(SubSeq(s, 1, Len(s) - 1))
    ELSE s

trim(s) == trim_end(trim_start(s))

Uppercase == "ABCDEFGHIJKLMNOPQRSTUVWXYZ"
Lowercase == "abcdefghijklmnopqrstuvwxyz"

char_to_lowercase(c) ==
    IF \E i \in 1..Len(Uppercase) : Char(Uppercase, i) = c
    THEN Char(Lowercase, CHOOSE i \in 1..Len(Uppercase) : Char(Uppercase, i) = c)
    ELSE c

RECURSIVE to_lowercase(_)
to_lowercase(s) ==
    IF s = "" THEN ""
    ELSE char_to_lowercase(Char(s, 1)) \o to_lowercase(SubSeq(s, 2, Len(s)))

\* str::lines: split at "\n"; a "\r" right before the "\n" belongs to the
\* terminator; a final terminator does not open a further, empty line.
RECURSIVE lines(_)
lines(s) ==
    IF s = "" THEN <<>>
    ELSE IF \E i \in 1..Len(s) : Char(s, i) = "\n"
    THEN LET p == CHOOSE i \in 1..Len(s) :
                     /\ Char(s, i) = "\n"
                     /\ \A j \in 1..(i - 1) : Char(s, j) # "\n"
             raw == SubSeq(s, 1, p - 1)
             line == IF raw # "" /\ Char(raw, Len(raw)) = "\r"
                     THEN SubSeq(raw, 1, Len(raw) - 1)
                     ELSE raw
         IN  <<line>> \o lines(SubSeq(s, p + 1, Len(s)))
    ELSE <<s>>

(***************************************************************************)
(* u128 values are decimal digit sequences, least significant digit first, *)
(* without leading zeros (zero is <<0>>): 2^128 exceeds the checker's      *)
(* integers.                                                               *)
(***************************************************************************)
RECURSIVE u128_from_nat(_)
u128_from_nat(n) ==
    IF n < 10 THEN <<n>> ELSE <<n % 10>> \o u128_from_nat(n \div 10)

RECURSIVE strip_zeros(_)
strip_zeros(ds) ==
    IF Len(ds) > 1 /\ ds[Len(ds)] = 0
    THEN strip_zeros(SubSeq(ds, 1, Len(ds) - 1))
    ELSE ds

\* a - b for a >= b
RECURSIVE digits_sub(_, _, _)
digits_sub(a, b, borrow) ==
    IF a = <<>> THEN <<>>
    ELSE LET bd == IF b = <<>> THEN 0 ELSE Head(b)
             v  == Head(a) - bd - borrow
         IN  <<(v + 10) % 10>>
             \o digits_sub(Tail(a), IF b = <<>> THEN <<>> ELSE Tail(b),
                           IF v < 0 THEN 1 ELSE 0)

RECURSIVE digits_from_string(_)
digits_from_string(s) ==
    IF s = "" THEN <<>>
    ELSE digits_from_string(SubSeq(s, 2, Len(s)))
         \o <<(CHOOSE d \in 1..10 : Char("0123456789", d) = Char(s, 1)) - 1>>

\* 2^128 = u128::MAX + 1
U128Modulus == digits_from_string("340282366920938463463374607431768211456")

\* `x as u128` for an i64 x: sign extension, i.e. x modulo 2^128
i64_as_u128(x) ==
    IF x >= 0 THEN u128_from_nat(x)
    ELSE strip_zeros(digits_sub(U128Modulus, u128_from_nat(-x), 0))

\* a < b on u128 values
u128_lt(a, b) ==
    \/ Len(a) < Len(b)
    \/ /\ Len(a) = Len(b)
       /\ \E i \in 1..Len(a) :
             /\ a[i] < b[i]
             /\ \A j \in (i + 1)..Len(a) : a[j] = b[j]

Digit_Chars == "0123456789"

RECURSIVE u128_to_string(_)
u128_to_string(ds) ==
    IF ds = <<>> THEN ""
    ELSE u128_to_string(Tail(ds)) \o Char(Digit_Chars, Head(ds) + 1)

bool_to_string(b) == IF b THEN "true" ELSE "false"

(***************************************************************************)
(* The parsed document: element nodes in document order, each with a tag   *)
(* name, its attributes (name -> value) and its text content.  The page    *)
(* body is the pair of the parsed nodes and the raw text.                  *)
(***************************************************************************)
has_attr(node, a) == a \in DOMAIN node.attrs

attr_is(node, a, v) == has_attr(node, a) /\ node.attrs[a] = v

\* Document::find(predicate), the matching nodes in document order: SelectSeq

\* has_schema_markup (Document::from_read of an in-memory string does not fail)
has_schema_markup(page) ==
    LET document == page.nodes
        json_ld ==
            \E i \in 1..Len(document) :
                /\ document[i].name = "script"
                /\ attr_is(document[i], "type", "application/ld+json")
                /\ starts_with(trim(document[i].text), "{")
        microdata == SelectSeq(document, LAMBDA n : has_attr(n, "itemscope")) # <<>>
        rdfa == SelectSeq(document, LAMBDA n : has_attr(n, "typeof")) # <<>>
    IN  json_ld \/ microdata \/ rdfa

\* is_valid_robots_txt with is_empty() in place of trim().is_empty()
robots_line_ok_untrimmed(line) ==
    \/ starts_with(line, "User-agent:")
    \/ starts_with(line, "Disallow:")
    \/ starts_with(line, "Allow:")
    \/ line = ""
    \/ starts_with(line, "#")

robots_line_ok(line) ==
    \/ starts_with(line, "User-agent:")
    \/ starts_with(line, "Disallow:")
    \/ starts_with(line, "Allow:")
    \/ trim(line) = ""
    \/ starts_with(line, "#")

\* the for loop of is_valid_robots_txt: stops at the first offending line
RECURSIVE robots_scan(_)
robots_scan(ls) ==
    IF ls = <<>> THEN TRUE
    ELSE IF ~robots_line_ok(Head(ls)) THEN FALSE
    ELSE robots_scan(Tail(ls))

is_valid_robots_txt(content) == robots_scan(lines(content))

\* get_canonical: the href of the first <link rel="canonical">, "" when there
\* is no such link or it has no href (unwrap_or_default at the call)
get_canonical(page) ==
    LET found == SelectSeq(page.nodes,
                      LAMBDA n : n.name = "link" /\ attr_is(n, "rel", "canonical"))
    IN  IF found # <<>> /\ has_attr(found[1], "href")
        THEN found[1].attrs["href"]
        ELSE ""

has_amp(page) ==
    \E i \in 1..Len(page.nodes) :
        LET node == page.nodes[i]
        IN  \/ node.name = "link" /\ attr_is(node, "rel", "amphtml")
            \/ node.name = "html" /\ (has_attr(node, "amp") \/ has_attr(node, "⚡"))
            \/ node.name = "script"
               /\ attr_is(node, "src", "https://cdn.ampproject.org/v0.js")

is_responsive(page) ==
    SelectSeq(page.nodes, LAMBDA n : n.name = "meta" /\ attr_is(n, "name", "viewport"))
        # <<>>

is_digit(c) == \E d \in 1..Len(Digit_Chars) : Char(Digit_Chars, d) = c

\* Regex UA-\d+-\d+, is_match: an unanchored search in the raw text
has_google_analytics(page) ==
    LET s == page.text
    IN  \E i \in 1..Len(s) : \E j \in (i + 3)..(Len(s) - 2) :
            /\ SubSeq(s, i, i + 2) = "UA-"
            /\ \A k \in (i + 3)..j : is_digit(Char(s, k))
            /\ Char(s, j + 1) = "-"
            /\ is_digit(Char(s, j + 2))

\* is_indexed without to_lowercase()
is_indexed_case_sensitive(page) ==
    LET found == SelectSeq(page.nodes,
                      LAMBDA n : n.name = "meta" /\ attr_is(n, "name", "robots"))
    IN  IF found # <<>>
        THEN LET meta == found[1]
                 content == IF has_attr(meta, "content")
                            THEN meta.attrs["content"] ELSE ""
             IN  ~contains(content, "noindex")
        ELSE TRUE

is_indexed(page) ==
    LET found == SelectSeq(page.nodes,
                      LAMBDA n : n.name = "meta" /\ attr_is(n, "name", "robots"))
    IN  IF found # <<>>
        THEN LET meta == found[1]
                 content == IF has_attr(meta, "content")
                            THEN meta.attrs["content"] ELSE ""
             IN  ~contains(to_lowercase(content), "noindex")
        ELSE TRUE

has_search_console(page) ==
    SelectSeq(page.nodes,
         LAMBDA n : n.name = "meta" /\ attr_is(n, "name", "google-site-verification"))
        # <<>>

\* get_broken_links: the href of every <a href>, in document order
anchor_hrefs(page) ==
    LET found == SelectSeq(page.nodes, LAMBDA n : n.name = "a" /\ has_attr(n, "href"))
    IN  [i \in 1..Len(found) |-> found[i].attrs["href"]]

\* get_broken_links: the URL probed for an href
link_url(base_url, href) ==
    IF starts_with(href, "/") THEN base_url \o href ELSE href

\* HashMap::insert
insert(map, key, value) ==
    [k \in DOMAIN map \cup {key} |-> IF k = key THEN value ELSE map[k]]

GoodBelow == 2000
ModerateBelow == 4000

\* the bands with <= in place of <
load_time_result_inclusive(t) ==
    IF ~u128_lt(u128_from_nat(GoodBelow), t) THEN "Good"
    ELSE IF ~u128_lt(u128_from_nat(ModerateBelow), t) THEN "Moderate"
    ELSE "Poor"

load_time_result(t) ==
    IF u128_lt(t, u128_from_nat(GoodBelow)) THEN "Good"
    ELSE IF u128_lt(t, u128_from_nat(ModerateBelow)) THEN "Moderate"
    ELSE "Poor"

load_time_grade(t) ==
    IF u128_lt(t, u128_from_nat(GoodBelow)) THEN "A"
    ELSE IF u128_lt(t, u128_from_nat(ModerateBelow)) THEN "B"
    ELSE "C"

(***************************************************************************)
(* The environment of one run: the command line, what each request of the  *)
(* run ends in, and the two readings of the wall clock.                    *)
(***************************************************************************)
MaxMeta == 2
MaxLinks == 2
MaxLines == 2
MaxSkew == 2

SeqsUpTo(S, n) == UNION {[1..k -> S] : k \in 0..n}

NoAttrs == [a \in {} |-> ""]

El(name, attrs, text) == [name |-> name, attrs |-> attrs, text |-> text]

Page(nodes, text) == [nodes |-> nodes, text |-> text]

\* Result<_, reqwest::Error> of send()/text(): the status is never inspected
Err == [tag |-> "Err", status |-> 0, body |-> ""]
Ok(status, body) == [tag |-> "Ok", status |-> status, body |-> body]

Program == "web_audit"
BaseUrl == "https://a.com"
Urls == {BaseUrl, "https://a.com/", "https://a.com/blog"}

MetaTags ==
    {El("meta", "name" :> "robots", ""),
     El("meta", ("name" :> "robots") @@ ("content" :> "index,follow"), ""),
     El("meta", ("name" :> "robots") @@ ("content" :> "NOINDEX, nofollow"), ""),
     El("meta", ("name" :> "robots") @@ ("content" :> "noindex"), ""),
     El("meta", ("name" :> "viewport") @@ ("content" :> "noindex"), "")}

Anchors ==
    {El("a", "href" :> "/missing", "m"),
     El("a", "href" :> "about", "a"),
     El("a", "href" :> "https://b.org/x", "x"),
     El("a", "name" :> "top", "")}

RobotsLines ==
    {"User-agent: *", "Disallow: /private", "Allow: /", "", "  ", "# note",
     " # note", "Sitemap: https://a.com/s.xml", "user-agent: *", " Allow: /"}

RECURSIVE join_lines(_, _, _)
join_lines(ls, sep, last) ==
    IF ls = <<>> THEN ""
    ELSE Head(ls) \o (IF Len(ls) = 1 THEN last ELSE sep)
         \o join_lines(Tail(ls), sep, last)

RobotsBodies ==
    {join_lines(ls, "\n", "") : ls \in SeqsUpTo(RobotsLines, MaxLines)}
    \cup {join_lines(ls, "\r\n", "\r\n") : ls \in SeqsUpTo(RobotsLines, MaxLines)}

HeadOutcomes == {Err, Ok(200, ""), Ok(404, "")}

\* send() fails without any traffic for a target that is no absolute URL
has_scheme(target) ==
    \E i \in 1..(Len(target) - 2) : SubSeq(target, i, i + 2) = "://"

HeadOutcomesFor(href) ==
    IF has_scheme(link_url(BaseUrl, href)) THEN HeadOutcomes ELSE {Err}

Clock0 == 10
Elapsed ==
    ((0 - MaxSkew)..MaxSkew)
    \cup {GoodBelow + d : d \in (0 - MaxSkew)..MaxSkew}
    \cup {ModerateBelow + d : d \in (0 - MaxSkew)..MaxSkew}
    \cup {1500, 2500, 5000}

EmptyPage == Page(<<El("html", NoAttrs, "")>>, "")

BasePage ==
    Page(<<El("html", "lang" :> "en", ""),
           El("meta", ("name" :> "viewport") @@ ("content" :> "width=device-width"), ""),
           El("link", ("rel" :> "canonical") @@ ("href" :> "https://a.com/p"), ""),
           El("script", "type" :> "application/ld+json", " {\"@type\": \"Thing\"}"),
           El("a", "href" :> "/valid", "v"),
           El("a", "href" :> "/missing", "m")>>,
         "<script>ga('create', 'UA-12345-6');</script>")

FeaturePages ==
    {EmptyPage, BasePage,
     Page(<<El("script", "type" :> "application/ld+json", "[1]")>>, "UA-x-1"),
     Page(<<El("div", "itemscope" :> "", "")>>, "UA-1"),
     Page(<<El("span", "typeof" :> "Person", "")>>, "xUA-7-0"),
     Page(<<El("link", ("rel" :> "amphtml") @@ ("href" :> "/amp"), "")>>, ""),
     Page(<<El("html", "amp" :> "", "")>>, ""),
     Page(<<El("html", "⚡" :> "", "")>>, ""),
     Page(<<El("script", "src" :> "https://cdn.ampproject.org/v0.js", "")>>, ""),
     Page(<<El("link", "rel" :> "canonical", ""),
            El("link", ("rel" :> "canonical") @@ ("href" :> "/second"), "")>>, ""),
     Page(<<El("meta", ("name" :> "google-site-verification")
                        @@ ("content" :> "tok"), "")>>, "")}

BaseRobots == Ok(200, "User-agent: *\nDisallow: /private\n")

BaseHead(page) ==
    [i \in 1..Len(anchor_hrefs(page)) |-> IF i % 2 = 0 THEN Err ELSE Ok(200, "")]

BaseWorld(page) ==
    [primary |-> Ok(200, page), robots |-> BaseRobots,
     sitemap |-> Ok(200, "<urlset/>"), head |-> BaseHead(page),
     latency |-> Ok(200, ""), clock |-> <<Clock0, Clock0 + 1500>>]

CoreWorlds ==
    {[BaseWorld(p) EXCEPT !.primary = Ok(st, p), !.robots = r,
                          !.sitemap = s, !.latency = l] :
        p \in FeaturePages, st \in {200, 404},
        r \in {Err, BaseRobots, Ok(404, "<h1>Not Found</h1>"), Ok(404, "")},
        s \in {Err, Ok(200, "<urlset/>"), Ok(404, "")},
        l \in {Err, Ok(200, ""), Ok(500, "")}}
    \cup {[BaseWorld(EmptyPage) EXCEPT !.primary = Err]}

RobotsWorlds ==
    {[BaseWorld(EmptyPage) EXCEPT !.robots = Ok(st, b)] :
        st \in {200, 404}, b \in RobotsBodies}

MetaWorlds ==
    {BaseWorld(Page(ms, "")) : ms \in SeqsUpTo(MetaTags, MaxMeta)}

LinkWorlds ==
    UNION {LET p == Page(as, "")
           IN  {[BaseWorld(p) EXCEPT !.head = h] :
                   h \in {g \in [1..Len(anchor_hrefs(p)) -> HeadOutcomes] :
                             \A i \in DOMAIN g :
                                 g[i] \in HeadOutcomesFor(anchor_hrefs(p)[i])}} :
           as \in SeqsUpTo(Anchors, MaxLinks)}

ClockWorlds ==
    {[BaseWorld(EmptyPage) EXCEPT !.clock = <<Clock0, Clock0 + e>>, !.latency = l] :
        e \in Elapsed, l \in {Err, Ok(200, "")}}

Worlds == CoreWorlds \cup RobotsWorlds \cup MetaWorlds \cup ClockWorlds

(***************************************************************************)
(* The program.  pc is the blocking call the single thread is in.          *)
(***************************************************************************)
url == args[2]

Request(method, target) == [method |-> method, url |-> target, result |-> "pending"]

\* the request in flight returns
completed(reqs, result) == [reqs EXCEPT ![Len(reqs)].result = result]

NoTime == [tag |-> "None", value |-> <<>>]

Init ==
    /\ \/ args = <<Program>> /\ world = BaseWorld(EmptyPage)
       \/ args = <<Program, BaseUrl>> /\ world \in Worlds
       \/ args \in {<<Program, u>> : u \in Urls} /\ world \in LinkWorlds
    /\ pc = "main"
    /\ details = [k \in {} |-> <<>>]
    /\ html = Page(<<>>, "")
    /\ links = <<>>
    /\ idx = 0
    /\ broken_links = <<>>
    /\ broken_link_pages = <<>>
    /\ requests = <<>>
    /\ time = NoTime
    /\ stdout = [k \in {} |-> <<>>]
    /\ stderr = ""

\* main, args.len() < 2
MainUsage ==
    /\ pc = "main"
    /\ Len(args) < 2
    /\ stderr' = "Usage: " \o args[1] \o " <url>"
    /\ pc' = "exit"
    /\ UNCHANGED <<args, world, details, html, links, idx, broken_links,
                   broken_link_pages, requests, time, stdout>>

\* main calls get_website_details, which calls fetch_url(url)
MainCall ==
    /\ pc = "main"
    /\ Len(args) >= 2
    /\ requests' = Append(requests, Request("GET", url))
    /\ pc' = "fetch_url"
    /\ UNCHANGED <<args, world, details, html, links, idx, broken_links,
                   broken_link_pages, time, stdout, stderr>>

error_report(map) == insert(map, "error", <<"Failed to retrieve website content">>)

\* fetch_url(url) is Err: the Err arm of get_website_details
FetchErr ==
    /\ pc = "fetch_url"
    /\ world.primary.tag = "Err"
    /\ requests' = completed(requests, "Err")
    /\ details' = error_report(details)
    /\ pc' = "output"
    /\ UNCHANGED <<args, world, html, links, idx, broken_links,
                   broken_link_pages, time, stdout, stderr>>

robots_url(base_url) == base_url \o "/robots.txt"

\* has_sitemap_xml probing the robots.txt path
sitemap_url_robots(base_url) == base_url \o "/robots.txt"

sitemap_url(base_url) == base_url \o "/sitemap.xml"

\* fetch_url(url) is Ok(html): schema markup, then get_robots_txt sends
FetchOk ==
    /\ pc = "fetch_url"
    /\ world.primary.tag = "Ok"
    /\ html' = world.primary.body
    /\ details' = insert(details, "Schema Markup",
                         <<IF has_schema_markup(html') THEN "Found" ELSE "Not Found">>)
    /\ requests' = Append(completed(requests, "Ok"), Request("GET", robots_url(url)))
    /\ pc' = "get_robots_txt"
    /\ UNCHANGED <<args, world, links, idx, broken_links,
                   broken_link_pages, time, stdout, stderr>>

\* the None arm without its status entry
robots_entries_no_status(map, response) ==
    IF response.tag = "Ok"
    THEN insert(insert(map, "Robots.txt", <<response.body>>),
                "Robots.txt Status",
                <<IF is_valid_robots_txt(response.body) THEN "Valid" ELSE "Invalid">>)
    ELSE insert(map, "Robots.txt", <<"Not Found">>)

\* the two robots.txt entries, from get_robots_txt's Option<String>
robots_entries(map, response) ==
    IF response.tag = "Ok"
    THEN insert(insert(map, "Robots.txt", <<response.body>>),
                "Robots.txt Status",
                <<IF is_valid_robots_txt(response.body) THEN "Valid" ELSE "Invalid">>)
    ELSE insert(insert(map, "Robots.txt", <<"Not Found">>),
                "Robots.txt Status", <<"Not Found">>)

\* get_robots_txt returns; has_sitemap_xml sends
GetRobotsTxt ==
    /\ pc = "get_robots_txt"
    /\ details' = robots_entries(details, world.robots)
    /\ requests' = Append(completed(requests, world.robots.tag),
                          Request("GET", sitemap_url(url)))
    /\ pc' = "has_sitemap_xml"
    /\ UNCHANGED <<args, world, html, links, idx, broken_links,
                   broken_link_pages, time, stdout, stderr>>

\* lines 169-175
page_entries(map, page, sitemap) ==
    LET d1 == insert(map, "Sitemap.xml",
                     <<IF sitemap.tag = "Ok" THEN "Found" ELSE "Not Found">>)
        d2 == insert(d1, "Canonical Tags", <<get_canonical(page)>>)
        d3 == insert(d2, "AMP", <<bool_to_string(has_amp(page))>>)
        d4 == insert(d3, "Responsive", <<bool_to_string(is_responsive(page))>>)
        d5 == insert(d4, "Google Analytics",
                     <<bool_to_string(has_google_analytics(page))>>)
        d6 == insert(d5, "Search Console",
                     <<bool_to_string(has_search_console(page))>>)
    IN  insert(d6, "Search Console Status",
               <<IF \E i \in 1..Len(d6["Search Console"]) :
                        d6["Search Console"][i] = "true"
                 THEN "Present" ELSE "Absent">>)

\* has_sitemap_xml returns; the page inspections; get_broken_links starts
HasSitemapXml ==
    /\ pc = "has_sitemap_xml"
    /\ requests' = completed(requests, world.sitemap.tag)
    /\ details' = page_entries(details, html, world.sitemap)
    /\ links' = anchor_hrefs(html)
    /\ idx' = 1
    /\ broken_links' = <<>>
    /\ broken_link_pages' = <<>>
    /\ pc' = "get_broken_links"
    /\ UNCHANGED <<args, world, html, time, stdout, stderr>>

\* get_broken_links: client.head(&url).send() for the next link
HeadSend ==
    /\ pc = "get_broken_links"
    /\ idx <= Len(links)
    /\ requests' = Append(requests, Request("HEAD", link_url(url, links[idx])))
    /\ pc' = "head"
    /\ UNCHANGED <<args, world, details, html, links, idx, broken_links,
                   broken_link_pages, time, stdout, stderr>>

\* a HEAD answered with an error status counted as broken
record_link_by_status(lists, outcome, target, href) ==
    IF outcome.tag = "Err" \/ outcome.status >= 400
    THEN <<Append(lists[1], target), Append(lists[2], href)>>
    ELSE lists

\* what one HEAD outcome appends to (broken_links, broken_link_pages)
record_link(lists, outcome, target, href) ==
    IF outcome.tag = "Err"
    THEN <<Append(lists[1], target), Append(lists[2], href)>>
    ELSE lists

\* get_broken_links: the HEAD returns
HeadDone ==
    /\ pc = "head"
    /\ requests' = completed(requests, world.head[idx].tag)
    /\ LET lists == record_link(<<broken_links, broken_link_pages>>, world.head[idx],
                                link_url(url, links[idx]), links[idx])
       IN  /\ broken_links' = lists[1]
           /\ broken_link_pages' = lists[2]
    /\ idx' = idx + 1
    /\ pc' = "get_broken_links"
    /\ UNCHANGED <<args, world, details, html, links, time, stdout, stderr>>

\* lines 178-181
link_entries(map, page, base_url, broken, pages) ==
    LET d1 == insert(map, "Broken Links", broken)
        d2 == insert(d1, "Broken Link Pages", pages)
        d3 == insert(d2, "Index Pages", <<IF is_indexed(page) THEN base_url ELSE "">>)
    IN  insert(d3, "Non Index Pages", <<IF ~is_indexed(page) THEN base_url ELSE "">>)

\* get_broken_links returns; get_response_time reads the clock and sends
LinksDone ==
    /\ pc = "get_broken_links"
    /\ idx > Len(links)
    /\ details' = link_entries(details, html, url, broken_links, broken_link_pages)
    /\ requests' = Append(requests, Request("GET", url))
    /\ pc' = "get_response_time"
    /\ UNCHANGED <<args, world, html, links, idx, broken_links,
                   broken_link_pages, time, stdout, stderr>>

\* get_response_time: Err when send() fails, else the elapsed wall-clock
\* milliseconds, an i64, cast to u128
get_response_time(response, clock) ==
    IF response.tag = "Err" THEN [tag |-> "Err", value |-> <<>>]
    ELSE [tag |-> "Ok", value |-> i64_as_u128(clock[2] - clock[1])]

LoadTimeKeys == {"Desktop Load Time", "Mobile Load Time", "Tablet Load Time"}
LoadTimeResultKeys == {"Desktop Load Time Result", "Mobile Load Time Result",
                       "Tablet Load Time Result"}

\* the Ok(time) arm, lines 185-191
load_time_ok(map, t) ==
    [k \in DOMAIN map \cup LoadTimeKeys \cup LoadTimeResultKeys \cup {"Load Time Grade"} |->
        IF k \in LoadTimeKeys THEN <<u128_to_string(t)>>
        ELSE IF k \in LoadTimeResultKeys THEN <<load_time_result(t)>>
        ELSE IF k = "Load Time Grade" THEN <<load_time_grade(t)>>
        ELSE map[k]]

\* the Err arm reporting the failure like the primary fetch does
load_time_err_as_error(map) ==
    [k \in DOMAIN map \cup LoadTimeKeys \cup LoadTimeResultKeys
               \cup {"Load Time Grade", "error"} |->
        IF k \in LoadTimeKeys \cup LoadTimeResultKeys \cup {"Load Time Grade"}
        THEN <<"N/A">>
        ELSE IF k = "error" THEN <<"Failed to retrieve website content">>
        ELSE map[k]]

\* the Err arm, lines 194-200
load_time_err(map) ==
    [k \in DOMAIN map \cup LoadTimeKeys \cup LoadTimeResultKeys \cup {"Load Time Grade"} |->
        IF k \in LoadTimeKeys \cup LoadTimeResultKeys \cup {"Load Time Grade"}
        THEN <<"N/A">>
        ELSE map[k]]

\* get_response_time returns; get_website_details returns the report
GetResponseTime ==
    /\ pc = "get_response_time"
    /\ requests' = completed(requests, world.latency.tag)
    /\ time' = get_response_time(world.latency, world.clock)
    /\ details' = IF time'.tag = "Ok"
                  THEN load_time_ok(details, time'.value)
                  ELSE load_time_err(details)
    /\ pc' = "output"
    /\ UNCHANGED <<args, world, html, links, idx, broken_links,
                   broken_link_pages, stdout, stderr>>

\* main prints every entry of the report (in the map's iteration order)
Output ==
    /\ pc = "output"
    /\ stdout' = details
    /\ pc' = "exit"
    /\ UNCHANGED <<args, world, details, html, links, idx, broken_links,
                   broken_link_pages, requests, time, stderr>>

Next ==
    \/ MainUsage
    \/ MainCall
    \/ FetchErr
    \/ FetchOk
    \/ GetRobotsTxt
    \/ HasSitemapXml
    \/ HeadSend
    \/ HeadDone
    \/ LinksDone
    \/ GetResponseTime
    \/ Output

Spec == Init /\ [][Next]_vars

(***************************************************************************)
(* Properties                                                              *)
(***************************************************************************)
Returned == pc \in {"output", "exit"} /\ Len(args) >= 2

LoadKeys == LoadTimeKeys \cup LoadTimeResultKeys \cup {"Load Time Grade"}

ReportKeys ==
    {"Schema Markup", "Robots.txt", "Robots.txt Status", "Sitemap.xml",
     "Canonical Tags", "AMP", "Responsive", "Google Analytics", "Search Console",
     "Search Console Status", "Broken Links", "Broken Link Pages", "Index Pages",
     "Non Index Pages", "Desktop Load Time", "Mobile Load Time", "Tablet Load Time",
     "Desktop Load Time Result", "Mobile Load Time Result",
     "Tablet Load Time Result", "Load Time Grade"}

\* C1: when get_website_details has returned, the report has every signal
\* key and no "error" key if the primary GET succeeded, whatever the later
\* requests ended in; if the primary GET failed its only key is "error",
\* bound to the one fixed message.
C1_ReportKeys ==
    Returned =>
        IF world.primary.tag = "Ok"
        THEN ReportKeys \subseteq DOMAIN details /\ "error" \notin DOMAIN details
        ELSE /\ DOMAIN details = {"error"}
             /\ details["error"] = <<"Failed to retrieve website content">>

C1_Witness ==
    /\ pc = "exit"
    /\ world.primary.tag = "Ok"
    /\ world.robots.tag = "Err"
    /\ world.sitemap.tag = "Err"
    /\ world.latency.tag = "Err"
    /\ broken_links # <<>>
    /\ stdout = details

\* C2: whenever the site has no robots.txt (the GET failed, or was answered
\* with a non-2xx status and some body) the status entry is "Not Found";
\* "Valid" and "Invalid" are reported only for the body of an existing file.
C2_AbsentIsNotFound ==
    "Robots.txt Status" \in DOMAIN details =>
        LET absent == world.robots.tag = "Err" \/ world.robots.status \notin 200..299
            status == details["Robots.txt Status"]
        IN  /\ absent => status = <<"Not Found">>
            /\ status \in {<<"Valid">>, <<"Invalid">>} => ~absent

robots_directive(line) ==
    \/ starts_with(line, "User-agent:")
    \/ starts_with(line, "Disallow:")
    \/ starts_with(line, "Allow:")

robots_blank(line) == \A i \in 1..Len(line) : Char(line, i) \in White_Space

\* C3 as stated: the status is "Valid" exactly if every line that is not
\* blank and not a comment, a comment being allowed to begin with
\* whitespace, starts at its first character with one of the directives.
C3_CommentAfterWhitespace ==
    ("Robots.txt Status" \in DOMAIN details /\ world.robots.tag = "Ok") =>
        LET ls == lines(world.robots.body)
        IN  details["Robots.txt Status"] = <<"Valid">>
            <=> \A i \in 1..Len(ls) :
                    \/ robots_blank(ls[i])
                    \/ starts_with(trim_start(ls[i]), "#")
                    \/ robots_directive(ls[i])

\* C3 amended: the status is "Valid" exactly if every line is blank, or has
\* "#" as its first character, or starts at its first character with one of
\* the directives; otherwise it is "Invalid".
C3_ValidRobots ==
    ("Robots.txt Status" \in DOMAIN details /\ world.robots.tag = "Ok") =>
        LET ls == lines(world.robots.body)
            conforming == \A i \in 1..Len(ls) :
                              \/ robots_blank(ls[i])
                              \/ Len(ls[i]) >= 1 /\ Char(ls[i], 1) = "#"
                              \/ robots_directive(ls[i])
        IN  /\ details["Robots.txt Status"] \in {<<"Valid">>, <<"Invalid">>}
            /\ details["Robots.txt Status"] = <<"Valid">> <=> conforming

C3_Witness ==
    /\ pc = "exit"
    /\ world.robots.tag = "Ok"
    /\ lines(world.robots.body) = <<"Allow: /", " # note">>
    /\ details["Robots.txt Status"] = <<"Invalid">>

\* C4: at every point of the link loop and after it, the two lists have the
\* length of the number of HEADs that failed so far, and the k-th failed HEAD
\* contributed, at position k, the URL it probed and the href it came from;
\* a HEAD that completed, with any status, contributed nothing.  The report
\* carries the final lists.
C4_BrokenLinks ==
    (idx >= 1 /\ pc # "has_sitemap_xml") =>
        LET k == idx - 1
            failed(i) == world.head[i].tag = "Err"
            nfailed(i) == Cardinality({j \in 1..i : failed(j)})
        IN  /\ links = anchor_hrefs(world.primary.body)
            /\ Len(broken_links) = nfailed(k)
            /\ Len(broken_link_pages) = Len(broken_links)
            /\ \A i \in 1..k :
                   failed(i) => /\ broken_links[nfailed(i)] = requests[3 + i].url
                                /\ requests[3 + i].method = "HEAD"
                                /\ requests[3 + i].result = "Err"
                                /\ broken_link_pages[nfailed(i)] = links[i]
            /\ pc \in {"get_response_time", "output", "exit"} =>
                   /\ k = Len(links)
                   /\ details["Broken Links"] = broken_links
                   /\ details["Broken Link Pages"] = broken_link_pages

C4_Witness ==
    /\ pc = "exit"
    /\ Len(links) = 2
    /\ links[1] = links[2]
    /\ world.head[1] = Ok(404, "")
    /\ world.head[2] = Err
    /\ details["Broken Links"] = <<"https://a.com/missing">>
    /\ details["Broken Link Pages"] = <<"/missing">>

\* C5: when the timed GET succeeded and get_response_time returned t, the
\* three load-time entries are the decimal rendering of t, the three result
\* entries are one band, Good iff t < 2000, Moderate iff 2000 <= t < 4000,
\* Poor iff t >= 4000, and the grade is A, B, C for Good, Moderate, Poor.
\* For clock readings with end >= start, t is end - start; a returned value
\* of 2^128 - n is beyond every band limit.
C5_LoadTimeBands ==
    (Returned /\ time.tag = "Ok") =>
        LET e == world.clock[2] - world.clock[1]
            band == details["Desktop Load Time Result"]
            grade == details["Load Time Grade"]
        IN  /\ \A k \in LoadTimeKeys : details[k] = <<u128_to_string(time.value)>>
            /\ \A k \in LoadTimeResultKeys : details[k] = band
            /\ e >= 0 => /\ time.value = u128_from_nat(e)
                         /\ band = <<"Good">> <=> e < 2000
                         /\ band = <<"Moderate">> <=> (2000 <= e /\ e < 4000)
                         /\ band = <<"Poor">> <=> e >= 4000
            /\ e < 0 => band = <<"Poor">>
            /\ grade = <<"A">> <=> band = <<"Good">>
            /\ grade = <<"B">> <=> band = <<"Moderate">>
            /\ grade = <<"C">> <=> band = <<"Poor">>

C5_Witness ==
    /\ pc = "exit"
    /\ time.tag = "Ok"
    /\ world.clock[2] - world.clock[1] = 2000
    /\ details["Mobile Load Time"] = <<"2000">>
    /\ details["Tablet Load Time Result"] = <<"Moderate">>
    /\ details["Load Time Grade"] = <<"B">>

\* C6: the step in which get_response_time returns changes no entry other
\* than the seven load-time entries, whether the timed GET failed or not,
\* and adds no other key; when it failed, the seven entries are ["N/A"],
\* there is no "error" key, and the run goes on to print the report.
C6_LatencyFailureLocal ==
    [][pc = "get_response_time" =>
          /\ DOMAIN details' = DOMAIN details \cup LoadKeys
          /\ \A k \in DOMAIN details \ LoadKeys : details'[k] = details[k]
          /\ world.latency.tag = "Err" =>
                 /\ \A k \in LoadKeys : details'[k] = <<"N/A">>
                 /\ "error" \notin DOMAIN details'
                 /\ pc' = "output"]_vars

C6_Witness ==
    /\ pc = "exit"
    /\ world.primary.tag = "Ok"
    /\ world.latency.tag = "Err"
    /\ time.tag = "Err"
    /\ stdout["Load Time Grade"] = <<"N/A">>
    /\ stdout["Schema Markup"] = <<"Found">>

robots_metas(page) ==
    SelectSeq(page.nodes, LAMBDA n : n.name = "meta" /\ attr_is(n, "name", "robots"))

says_noindex(meta) ==
    has_attr(meta, "content") /\ contains(to_lowercase(meta.attrs["content"]), "noindex")

\* C7 as stated: the page is reported as not indexable exactly if some
\* robots meta tag has a content that, case-folded, contains "noindex".
C7_AnyRobotsMeta ==
    "Non Index Pages" \in DOMAIN details =>
        LET metas == robots_metas(world.primary.body)
            noindex == \E i \in 1..Len(metas) : says_noindex(metas[i])
        IN  /\ noindex <=> (/\ details["Non Index Pages"] = <<url>>
                            /\ details["Index Pages"] = <<"">>)
            /\ ~noindex <=> (/\ details["Index Pages"] = <<url>>
                             /\ details["Non Index Pages"] = <<"">>)

\* C7 amended: the page is reported as not indexable exactly if the first
\* robots meta tag, in document order, has a content that, case-folded,
\* contains "noindex"; otherwise it is reported as indexable.  Exactly one of
\* the two entries holds the URL.
C7_FirstRobotsMeta ==
    "Non Index Pages" \in DOMAIN details =>
        LET metas == robots_metas(world.primary.body)
            noindex == metas # <<>> /\ says_noindex(metas[1])
        IN  /\ noindex <=> (/\ details["Non Index Pages"] = <<url>>
                            /\ details["Index Pages"] = <<"">>)
            /\ ~noindex <=> (/\ details["Index Pages"] = <<url>>
                             /\ details["Non Index Pages"] = <<"">>)

C7_Witness ==
    /\ pc = "exit"
    /\ "Index Pages" \in DOMAIN details
    /\ Len(robots_metas(world.primary.body)) = 2
    /\ ~says_noindex(robots_metas(world.primary.body)[1])
    /\ says_noindex(robots_metas(world.primary.body)[2])
    /\ details["Index Pages"] = <<url>>
    /\ details["Non Index Pages"] = <<"">>

ExpectedRequests ==
    IF world.primary.tag = "Err" THEN <<<<"GET", url>>>>
    ELSE LET hrefs == anchor_hrefs(world.primary.body)
         IN  <<<<"GET", url>>, <<"GET", url \o "/robots.txt">>,
               <<"GET", url \o "/sitemap.xml">>>>
             \o [i \in 1..Len(hrefs) |-> <<"HEAD", link_url(url, hrefs[i])>>]
             \o <<<<"GET", url>>>>

\* C8: the requests issued so far are an initial part of: the primary GET,
\* then, if it succeeded, the GET of robots.txt, the GET of sitemap.xml, one
\* HEAD per <a href> in document order, and the timed GET.  Every request but
\* the last issued has completed.  When get_website_details has returned,
\* all of them were issued, each once, and none is pending, whichever of
\* them failed.
C8_RequestOrder ==
    IF Len(args) < 2 THEN requests = <<>>
    ELSE /\ Len(requests) <= Len(ExpectedRequests)
         /\ \A i \in 1..Len(requests) :
                /\ <<requests[i].method, requests[i].url>> = ExpectedRequests[i]
                /\ i < Len(requests) => requests[i].result # "pending"
         /\ Returned => /\ Len(requests) = Len(ExpectedRequests)
                        /\ \A i \in 1..Len(requests) : requests[i].result # "pending"

C8_Witness ==
    /\ pc = "exit"
    /\ Len(requests) = 6
    /\ requests[2].result = "Err"
    /\ requests[3].result = "Err"
    /\ requests[4].result = "Ok"
    /\ requests[5].result = "Err"
    /\ requests[6].method = "GET"

\* scheme://host of a URL
origin(u) ==
    LET s == CHOOSE i \in 1..(Len(u) - 2) : SubSeq(u, i, i + 2) = "://"
        rest == {i \in (s + 3)..Len(u) : Char(u, i) = "/"}
    IN  IF rest = {} THEN u
        ELSE SubSeq(u, 1, (CHOOSE i \in rest : \A j \in rest : i <= j) - 1)

\* C9: every HEAD probes, for an href beginning with "/", the origin of the
\* command-line URL followed by the href, and any other href verbatim.
C9_OriginResolution ==
    \A i \in 1..Len(links) :
        3 + i <= Len(requests) =>
            requests[3 + i].url = IF starts_with(links[i], "/")
                                  THEN origin(url) \o links[i]
                                  ELSE links[i]

\* C10: the value get_response_time returns on success is the non-negative
\* number end - start of the two clock readings.
C10_ElapsedTime ==
    time.tag = "Ok" =>
        /\ world.clock[2] - world.clock[1] >= 0
        /\ time.value = u128_from_nat(world.clock[2] - world.clock[1])

====
